---- MODULE Spec2Model ----
(***************************************************************************)
(* Model of the two batch pipelines of the repository:                     *)
(*   - the pressure pipeline   (src/V参数调整处理代码/main.py)              *)
(*   - the diffusion pipeline  (src/模拟结果处理代码/*.py)                  *)
(*                                                                         *)
(* Numbers.  Python floats are modelled by exact rationals <<n, d>> with   *)
(* d > 0 in lowest terms; the non-finite results of float64 arithmetic     *)
(* (inf, nan) are kept as separate tagged values.  Strings that the code   *)
(* splits, compares or parses (folder names) are sequences of one-letter   *)
(* strings, so split("-"), sorted() and float() are computed as the code   *)
(* computes them.                                                          *)
(***************************************************************************)
EXTENDS Integers, Sequences, FiniteSets, TLC

VARIABLES
    \* ---- pressure pipeline (main.py of V参数调整处理代码)
    p_pc,             \* position of main(): "start", "loop", "save", "analyze", "end"
    cfg,              \* config.config_data: ignore_dirs, verify_dirs, window, expected_pressure, colors
    root_exists,      \* whether cfg["data_path"] exists on disk
    run_folders,      \* the run folders under the root before the program starts
    todo,             \* process_data_files: the part of sorted(folders) not yet visited
    averages,         \* process_data_files: dict param_part -> avg (insertion ordered)
    verify_averages,  \* process_data_files: dict param_part -> avg of the verify runs
    runlog,           \* history: one record per visited folder, in visiting order
    result_file,      \* lines of output/average_pressures.txt ("none" before it is written)
    fit,              \* analyze_averages: the inputs handed to polyfit, coeffs, target_param
    p_error,          \* the exception caught by main()'s top-level handler ("none" if none)
    reported,         \* main(): the predicted parameter logged at the end, if any
    \* ---- diffusion pipeline (模拟结果处理代码)
    d_pc,             \* position of run_pipeline(): "idle", "start", "folders", "files",
                      \*   "save", "arrhenius", "end"
    d_cfg,            \* config.json as load_config() returns it
    disk,             \* the temperature folders, their .dat files and the lines of each
    root_todo,        \* run_pipeline: the temperature folders not yet visited
    cur_folder,       \* process_temperature_folder: temperature, fit range, files left
    data_dict,        \* process_temperature_folder: unique_key -> (time, msd)
    diffusion_results,\* run_pipeline: unique_key -> (D, r_squared, temperature)
    fit_params,       \* run_pipeline: unique_key -> (slope, intercept)
    filelog,          \* history: one record per data file visited, in visiting order
    folder_errors,    \* the temperature folders whose processing ended in the except of run_pipeline
    csv_file,         \* output/diffusion_coefficients.csv: written?, rows
    arrhenius,        \* plot_diffusion_coefficients: the points of the regression, fitting_results.txt
    runs,             \* main(): the number of calls of run_pipeline so far
    config_json,      \* the file config.json: exists?, its modification time, whether
                      \*   its text is valid JSON, the configuration it holds
    clock,            \* the time of the file system, in modifications of config.json
    main_pc,          \* position of main(): "idle" (run_pipeline is called on its own),
                      \*   "begin", "initial", "sleep", "rerun", "crashed"
    last_mtime,       \* main(): last_mtime, <<>> for None and <<m>> for the time m
    current_mtime,    \* main(): current_mtime as the last poll has read it
    polls             \* history: one record per poll of the while loop of main()

pvars == <<p_pc, cfg, root_exists, run_folders, todo, averages, verify_averages,
           runlog, result_file, fit, p_error, reported>>

\* config.json on disk
cvars == <<config_json, clock>>

\* the polling loop of main()
mvars == <<main_pc, last_mtime, current_mtime, polls>>

dvars == <<d_pc, d_cfg, disk, root_todo, cur_folder, data_dict, diffusion_results,
           fit_params, filelog, folder_errors, csv_file, arrhenius, runs, cvars, mvars>>

vars == <<pvars, dvars>>

----------------------------------------------------------------------------
(* Bounds of the model *)

\* most run folders under the root directory
MaxFolders == 3
\* most samples in one total-pressure.dat
MaxPoints == 2
\* window bounds start_ps, end_ps are drawn in half femtoseconds from -WinSpan..WinSpan
WinSpan == 4

----------------------------------------------------------------------------
(* Rationals: float arithmetic without rounding *)

\* an assignment name = x followed by the statements F that use the name: x is
\* evaluated once
Bind(x, F(_)) == CHOOSE r \in {F(v) : v \in {x}} : TRUE

Abs(a) == IF a < 0 THEN -a ELSE a

RECURSIVE Gcd(_, _)
Gcd(a, b) == IF b = 0 THEN a ELSE Bind(a % b, LAMBDA m : Gcd(b, m))

\* the rational n/d (d # 0) in lowest terms with a positive denominator
Rat(n, d) ==
    LET g == Gcd(Abs(n), Abs(d))
        s == IF d < 0 THEN -1 ELSE 1
    IN  <<(s * n) \div g, (s * d) \div g>>

RInt(k) == <<k, 1>>
RAdd(a, b) ==
    Bind(<<a, b>>, LAMBDA p : Rat(p[1][1] * p[2][2] + p[2][1] * p[1][2], p[1][2] * p[2][2]))
RSub(a, b) ==
    Bind(<<a, b>>, LAMBDA p : Rat(p[1][1] * p[2][2] - p[2][1] * p[1][2], p[1][2] * p[2][2]))
RMul(a, b) == Bind(<<a, b>>, LAMBDA p : Rat(p[1][1] * p[2][1], p[1][2] * p[2][2]))
RDiv(a, b) == Bind(<<a, b>>, LAMBDA p : Rat(p[1][1] * p[2][2], p[1][2] * p[2][1]))
RLess(a, b) == a[1] * b[2] < b[1] * a[2]
RLeq(a, b) == a[1] * b[2] <= b[1] * a[2]
RZero == RInt(0)

RECURSIVE RSum(_)
RSum(s) == IF s = <<>> THEN RZero ELSE RAdd(Head(s), RSum(Tail(s)))

\* int(x) of Python for the rational a / b, b > 0: truncation toward zero
PyInt(a, b) == IF a >= 0 THEN a \div b ELSE -((-a) \div b)

Min(a, b) == IF a < b THEN a ELSE b
Max(a, b) == IF a > b THEN a ELSE b

----------------------------------------------------------------------------
(* Strings: str.split("-"), sorted(), float() *)

Digits == {"0", "1", "2", "3", "4", "5", "6", "7", "8", "9"}

\* code point order of the letters the folder and file names use
CharCode(c) ==
    CASE c = "-" -> 45
      [] c = "." -> 46
      [] c \in Digits -> 48 + (CHOOSE k \in 0..9 :
                                  c = <<"0", "1", "2", "3", "4", "5", "6", "7", "8", "9">>[k + 1])
      [] c = "K" -> 75
      [] c = "T" -> 84
      [] c = "_" -> 95
      [] c = "a" -> 97
      [] c = "b" -> 98
      [] c = "d" -> 100
      [] c = "i" -> 105
      [] c = "m" -> 109
      [] c = "n" -> 110
      [] c = "o" -> 111
      [] c = "p" -> 112
      [] c = "t" -> 116
      [] c = "u" -> 117
      [] c = "v" -> 118
      [] c = "x" -> 120

\* s < t for Python strings: lexicographic by code point, a proper prefix first
RECURSIVE StrLess(_, _)
StrLess(s, t) ==
    IF t = <<>> THEN FALSE
    ELSE IF s = <<>> THEN TRUE
    ELSE IF Head(s) = Head(t) THEN StrLess(Tail(s), Tail(t))
    ELSE CharCode(Head(s)) < CharCode(Head(t))

\* s.split("-"): the tokens between the dashes, empty tokens kept
RECURSIVE SplitFrom(_, _, _)
SplitFrom(s, i, cur) ==
    IF i > Len(s) THEN <<cur>>
    ELSE IF s[i] = "-" THEN <<cur>> \o SplitFrom(s, i + 1, <<>>)
    ELSE SplitFrom(s, i + 1, Append(cur, s[i]))

Split(s) == SplitFrom(s, 1, <<>>)

Prefix(folder_name) == Split(folder_name)[1]

ParamPart(folder_name) == LET t == Split(folder_name) IN t[Len(t)]

DigitVal(c) == CharCode(c) - 48

RECURSIVE DigitsVal(_, _)
DigitsVal(s, acc) ==
    IF s = <<>> THEN acc ELSE DigitsVal(Tail(s), 10 * acc + DigitVal(Head(s)))

RECURSIVE Pow10(_)
Pow10(k) == IF k = 0 THEN 1 ELSE 10 * Pow10(k - 1)

\* digits with at most one dot and at least one digit
ParseUnsigned(s) ==
    LET dots   == {i \in 1..Len(s) : s[i] = "."}
        others == {i \in 1..Len(s) : s[i] \notin Digits /\ s[i] # "."}
        digs   == SelectSeq(s, LAMBDA c : c \in Digits)
    IN  IF others # {} \/ Cardinality(dots) > 1 \/ digs = <<>>
        THEN [ok |-> FALSE, val |-> RZero]
        ELSE LET frac == IF dots = {} THEN 0
                         ELSE Len(s) - (CHOOSE i \in dots : TRUE)
             IN  [ok |-> TRUE, val |-> Rat(DigitsVal(digs, 0), Pow10(frac))]

\* an optional sign, then ParseUnsigned
ParseSigned(s) ==
    IF s # <<>> /\ Head(s) \in {"-", "+"}
    THEN Bind(ParseUnsigned(Tail(s)), LAMBDA u :
             IF Head(s) = "-" THEN [ok |-> u.ok, val |-> RSub(RZero, u.val)] ELSE u)
    ELSE ParseUnsigned(s)

\* the exponent of a float literal: an optional sign and at least one digit
ParseExponent(s) ==
    LET body == IF s # <<>> /\ Head(s) \in {"-", "+"} THEN Tail(s) ELSE s
    IN  IF body = <<>> \/ \E i \in 1..Len(body) : body[i] \notin Digits
        THEN [ok |-> FALSE, val |-> 0]
        ELSE [ok |-> TRUE,
              val |-> IF s[1] = "-" THEN -DigitsVal(body, 0) ELSE DigitsVal(body, 0)]

\* float(s) for the strings made of digits, dots, signs and letters: a signed
\* decimal with an optional exponent parses, everything else is a ValueError
ParseFloat(s) ==
    LET es == {i \in 1..Len(s) : s[i] \in {"e", "E"}}
    IN  IF es = {} THEN ParseSigned(s)
        ELSE IF Cardinality(es) > 1 THEN [ok |-> FALSE, val |-> RZero]
        ELSE Bind(CHOOSE j \in es : TRUE, LAMBDA i :
             Bind(ParseSigned(SubSeq(s, 1, i - 1)), LAMBDA m :
             Bind(ParseExponent(SubSeq(s, i + 1, Len(s))), LAMBDA x :
                 IF ~m.ok \/ ~x.ok THEN [ok |-> FALSE, val |-> RZero]
                 ELSE IF x.val >= 0
                      THEN [ok |-> TRUE, val |-> RMul(m.val, RInt(Pow10(x.val)))]
                      ELSE [ok |-> TRUE, val |-> RDiv(m.val, RInt(Pow10(-x.val)))])))

\* sorted(names): insertion sort by StrLess
RECURSIVE InsertName(_, _)
InsertName(x, s) ==
    IF s = <<>> THEN <<x>>
    ELSE IF StrLess(x, Head(s)) THEN <<x>> \o s
    ELSE <<Head(s)>> \o InsertName(x, Tail(s))

RECURSIVE SortedNames(_)
SortedNames(S) ==
    IF S = {} THEN <<>>
    ELSE LET x == CHOOSE y \in S : TRUE IN InsertName(x, SortedNames(S \ {x}))

----------------------------------------------------------------------------
(* Python dicts: insertion ordered sequences of <<key, value>> *)

DictKeys(d) == {d[i][1] : i \in 1..Len(d)}

DictGet(d, k) == d[CHOOSE i \in 1..Len(d) : d[i][1] = k][2]

\* d[k] = v: a present key keeps its place and takes the new value
DictSet(d, k, v) ==
    IF k \in DictKeys(d)
    THEN [i \in 1..Len(d) |-> IF d[i][1] = k THEN <<k, v>> ELSE d[i]]
    ELSE Append(d, <<k, v>>)

\* {**a, **b}
RECURSIVE DictMerge(_, _)
DictMerge(a, b) ==
    IF b = <<>> THEN a ELSE DictMerge(DictSet(a, Head(b)[1], Head(b)[2]), Tail(b))

\* sorted(keys, key=float): stable insertion sort of a key sequence by float(key)
RECURSIVE InsertByFloat(_, _)
InsertByFloat(k, s) ==
    IF s = <<>> THEN <<k>>
    ELSE Bind(<<ParseFloat(k).val, ParseFloat(Head(s)).val>>, LAMBDA f :
             IF RLess(f[1], f[2]) THEN <<k>> \o s
             ELSE <<Head(s)>> \o InsertByFloat(k, Tail(s)))

RECURSIVE SortedByFloat(_)
SortedByFloat(ks) ==
    IF ks = <<>> THEN <<>>
    ELSE LET n == Len(ks)
         IN  InsertByFloat(ks[n], SortedByFloat(SubSeq(ks, 1, n - 1)))

----------------------------------------------------------------------------
(* The pressure pipeline: inputs *)

Str_n1  == <<"n", "-", "1">>
Str_n2  == <<"n", "-", "2">>
Str_n10 == <<"n", "-", "1", ".", "0">>
Str_m1  == <<"m", "-", "1">>
Str_v1  == <<"v", "-", "1">>
Str_na  == <<"n", "-", "a">>
Str_output == <<"o", "u", "t", "p", "u", "t">>

\* the run folders a root directory may hold: two normal runs, a run whose
\* parameter is the same float under another spelling, a run of another class
\* with the parameter of n-1, a run of a third class, a badly named folder
FolderUniverse == {Str_n1, Str_n2, Str_n10, Str_m1, Str_v1, Str_na}

\* cfg["ignore_dirs"]: nothing, the class v alone, the classes m and v
IgnoreChoices == {{}, {<<"v">>}, {<<"m">>, <<"v">>}}

\* cfg.get("start_time_ps", 0), cfg.get("end_time_ps", 100)
DefaultStartPs == 0
DefaultEndPs == 100

\* window bounds are kept in half femtoseconds, so that a bound may fall
\* between two samples: start_ps * 1000 is start_h / 2
HalfPerPs == 2 * 1000

\* cfg["expected_pressure"]: 0.5 as in config.py, and 0
ExpectedChoices == {Rat(1, 2), RZero}

\* the pressure levels of the runs
PressureLevels == {0, 1}

\* a total-pressure.dat of n samples, every sample p
ConstFile(n, p) == [i \in 1..n |-> p]

DataFiles == {ConstFile(n, p) : n \in 0..MaxPoints, p \in PressureLevels}

\* what a run folder holds:
\*   kind "noresults": no results/ directory;  "nofile": no total-pressure.dat
\*   kind "data": the samples of results/total-pressure.dat
Contents ==
    {[kind |-> k, data |-> <<>>] : k \in {"noresults", "nofile"}}
    \cup {[kind |-> "data", data |-> d] : d \in DataFiles}

NoFit == [state |-> "none", pts |-> <<>>, slope |-> RZero, intercept |-> RZero,
          target |-> [kind |-> "none", val |-> RZero]]

NoTarget == [kind |-> "none", val |-> RZero]

\* process_temperature_folder is not running
NoFolder == [temperature |-> <<>>, fit_start |-> RZero, fit_end |-> RZero, files |-> <<>>]

\* output/diffusion_coefficients.csv before save_diffusion_results has written it
NoCsv == [exists |-> FALSE, rows |-> <<>>]

\* plot_diffusion_coefficients has not run
NoArrhenius == [state |-> "none", raw_data |-> <<>>, points |-> <<>>,
                written |-> FALSE, line |-> "none"]

\* no config.json loaded
NoConfig == [ENABLE_FITTING |-> 0, target_keyword |-> <<>>, fit_ranges |-> <<>>,
             start_time_ps |-> RZero, end_time_ps |-> RZero]

\* config.json is missing
NoConfigFile == [exists |-> FALSE, mtime |-> 0, valid |-> FALSE, data |-> NoConfig]

\* config.json holding config_data as JSON, last written at time mtime
ConfigFile(config_data, mtime) ==
    [exists |-> TRUE, mtime |-> mtime, valid |-> TRUE, data |-> config_data]

\* main() is not running: run_pipeline is called on its own
MainIdle ==
    /\ main_pc = "idle"
    /\ last_mtime = <<>>
    /\ current_mtime = <<>>
    /\ polls = <<>>

\* the diffusion pipeline is not running
DiffusionIdle ==
    /\ d_pc = "idle"
    /\ d_cfg = NoConfig
    /\ disk = <<>>
    /\ root_todo = <<>>
    /\ cur_folder = NoFolder
    /\ data_dict = <<>>
    /\ diffusion_results = <<>>
    /\ fit_params = <<>>
    /\ filelog = <<>>
    /\ folder_errors = <<>>
    /\ csv_file = NoCsv
    /\ arrhenius = NoArrhenius
    /\ runs = 0
    /\ config_json = NoConfigFile
    /\ clock = 0
    /\ MainIdle

\* the pressure pipeline is not running
PressureIdle ==
    /\ p_pc = "idle"
    /\ cfg = [ignore_dirs |-> {}, verify_dirs |-> {}, start_h |-> 0, end_h |-> 0,
              expected_pressure |-> RZero, colors |-> <<>>]
    /\ root_exists = FALSE
    /\ run_folders = {}
    /\ todo = <<>>
    /\ averages = <<>>
    /\ verify_averages = <<>>
    /\ runlog = <<>>
    /\ result_file = [written |-> FALSE, lines |-> <<>>]
    /\ fit = NoFit
    /\ p_error = "none"
    /\ reported = NoTarget

InitCommon ==
    /\ DiffusionIdle
    /\ p_pc = "start"
    /\ root_exists \in BOOLEAN
    /\ todo = <<>>
    /\ averages = <<>>
    /\ verify_averages = <<>>
    /\ runlog = <<>>
    /\ result_file = [written |-> FALSE, lines |-> <<>>]
    /\ fit = NoFit
    /\ p_error = "none"
    /\ reported = NoTarget

\* the whole pipeline under the default window of main(); a root directory
\* that does not exist holds no run folder
Init ==
    /\ InitCommon
    /\ run_folders \in {S \in SUBSET FolderUniverse : Cardinality(S) <= MaxFolders}
    /\ ~root_exists => run_folders = {}
    /\ cfg \in [ignore_dirs : IgnoreChoices,
                verify_dirs : {{}, {<<"v">>}},
                start_h : {DefaultStartPs * HalfPerPs},
                end_h : {DefaultEndPs * HalfPerPs},
                expected_pressure : ExpectedChoices,
                colors : {<<>>, <<"#1f77b4">>}]

\* one run under every window
InitWindow ==
    /\ InitCommon
    /\ run_folders \in {{Str_n1}, {Str_v1}}
    /\ root_exists = TRUE
    /\ cfg \in [ignore_dirs : {{}},
                verify_dirs : {{<<"v">>}},
                start_h : -WinSpan..WinSpan,
                end_h : -WinSpan..WinSpan,
                expected_pressure : {Rat(1, 2)},
                colors : {<<"#1f77b4">>}]
    /\ cfg.start_h <= cfg.end_h

----------------------------------------------------------------------------
(* process_data_files *)

\* seq[start:stop] of Python for start >= 0: the 0-based indices it keeps
PySliceIdx(n, start, stop) ==
    LET lo == Min(start, n)
        hi == IF stop < 0 THEN Max(stop + n, 0) ELSE Min(stop, n)
    IN  [i \in 1..Max(hi - lo, 0) |-> lo + i - 1]

\* lines 114-121: the indices of the samples kept for the window
WindowIdx(n_points, start_h, end_h) ==
    LET start_fs  == PyInt(start_h, 2)
        end_fs    == PyInt(end_h, 2)
        start_idx == Max(0, start_fs)
        end_idx   == Min(n_points - 1, end_fs)
    IN  PySliceIdx(n_points, start_idx, end_idx + 1)

\* np.mean
Mean(vals) == RDiv(RSum([i \in 1..Len(vals) |-> RInt(vals[i])]), RInt(Len(vals)))

LogEntry(folder, outcome, is_verify, n, kept, avg) ==
    [folder |-> folder, outcome |-> outcome, is_verify |-> is_verify,
     key |-> ParamPart(folder), n |-> n, kept |-> kept, avg |-> avg]

Skip(folder, outcome, is_verify, n) ==
    /\ runlog' = Append(runlog, LogEntry(folder, outcome, is_verify, n, <<>>, RZero))
    /\ UNCHANGED <<averages, verify_averages>>

\* lines 104-167 of one loop iteration: the try block
TryBlock(folder_name, is_verify, c) ==
    \E n_points \in {Len(c.data)} :
    \E kept \in {WindowIdx(n_points, cfg.start_h, cfg.end_h)} :
    \E pressure \in {[i \in 1..Len(kept) |-> c.data[kept[i] + 1]]} :
        IF n_points = 1
        THEN \* np.loadtxt gives a 0-d array for one value: len() raises TypeError
             Skip(folder_name, "error", is_verify, n_points)
        ELSE IF Len(pressure) = 0
        THEN Skip(folder_name, "empty", is_verify, n_points)
        ELSE \* the average is stored (lines 130-133) before the plot is drawn;
             \* next(color_cycle) at line 136 raises StopIteration when
             \* cfg["colors"] is empty, which the except of line 166 logs
             \E avg \in {Mean(pressure)}, key \in {ParamPart(folder_name)} :
             /\ IF is_verify
                THEN /\ verify_averages' = DictSet(verify_averages, key, avg)
                     /\ UNCHANGED averages
                ELSE /\ averages' = DictSet(averages, key, avg)
                     /\ UNCHANGED verify_averages
             /\ runlog' = Append(runlog,
                    LogEntry(folder_name, IF cfg.colors # <<>> THEN "ok" ELSE "ploterror",
                             is_verify, n_points, kept, avg))

\* a plausible slip: verify_dirs is looked at first, and ignore_dirs only
\* for the runs that are not verify runs
IsIgnored_unlessVerify(prefix) == prefix \in cfg.ignore_dirs /\ prefix \notin cfg.verify_dirs

\* line 64: prefix in ignore_dirs
IsIgnored(prefix) == prefix \in cfg.ignore_dirs

\* line 69: is_verify = prefix in verify_dirs
IsVerify(prefix) == prefix \in cfg.verify_dirs

\* a plausible slip: the try of lines 79-84 left out, every name is taken
NameParses_always(folder_name) == TRUE

\* lines 79-84: float(folder_name.split("-")[-1]) does not raise
NameParses(folder_name) == ParseFloat(ParamPart(folder_name)).ok

\* lines 59-167: one iteration of the loop over sorted(folders)
P_Folder ==
    /\ p_pc = "loop"
    /\ todo # <<>>
    /\ LET folder_name == Head(todo)
           prefix      == Prefix(folder_name)
           is_verify   == IsVerify(prefix)
       IN  IF IsIgnored(prefix)
           THEN Skip(folder_name, "ignored", FALSE, 0)
           ELSE IF folder_name = Str_output
           THEN Skip(folder_name, "output", is_verify, 0)
           ELSE IF ~NameParses(folder_name)
           THEN Skip(folder_name, "badname", is_verify, 0)
           ELSE \E c \in Contents :
                   IF c.kind = "noresults" THEN Skip(folder_name, "noresults", is_verify, 0)
                   ELSE IF c.kind = "nofile" THEN Skip(folder_name, "nofile", is_verify, 0)
                   ELSE TryBlock(folder_name, is_verify, c)
    /\ todo' = Tail(todo)
    /\ UNCHANGED <<p_pc, cfg, root_exists, run_folders, result_file, fit, p_error, reported>>
    /\ UNCHANGED dvars

\* main() lines 303-329 and process_data_files lines 40-57: the output
\* directory is made under the root (os.makedirs makes the root with it),
\* then the root is checked and its folders are listed and sorted
P_Start ==
    /\ p_pc = "start"
    /\ root_exists' = TRUE
    /\ LET folders == run_folders \cup {Str_output}
       IN  IF ~root_exists'
           THEN /\ p_error' = "FileNotFoundError" /\ p_pc' = "end" /\ todo' = <<>>
           ELSE IF folders = {}
           THEN /\ p_error' = "ValueError" /\ p_pc' = "end" /\ todo' = <<>>
           ELSE /\ todo' = SortedNames(folders) /\ p_pc' = "loop" /\ UNCHANGED p_error
    /\ UNCHANGED <<cfg, run_folders, averages, verify_averages, runlog, result_file,
                   fit, reported>>
    /\ UNCHANGED dvars

----------------------------------------------------------------------------
(* main(): average_pressures.txt, and analyze_averages *)

DictKeySeq(d) == [i \in 1..Len(d) |-> d[i][1]]

\* main() lines 332-343: one line per key of {**averages, **verify_averages},
\* sorted by float(key): <<param, value, whether it is marked as verify data>>
ResultLines(avgs, vavgs) ==
    Bind(DictMerge(avgs, vavgs), LAMBDA all_data :
    Bind(SortedByFloat(DictKeySeq(all_data)), LAMBDA sorted_params :
        [i \in 1..Len(sorted_params) |->
            <<sorted_params[i], DictGet(all_data, sorted_params[i]),
              sorted_params[i] \in DictKeys(vavgs)>>]))

\* lines 199-203: the points in the order of np.argsort(params)
RECURSIVE InsertPt(_, _)
InsertPt(q, s) ==
    IF s = <<>> THEN <<q>>
    ELSE IF RLess(q[1], Head(s)[1]) THEN <<q>> \o s
    ELSE <<Head(s)>> \o InsertPt(q, Tail(s))

RECURSIVE SortPts(_)
SortPts(pts) ==
    IF pts = <<>> THEN <<>>
    ELSE InsertPt(pts[Len(pts)], SortPts(SubSeq(pts, 1, Len(pts) - 1)))

\* a plausible slip: the fit over all_data, the merged dict of line 175
FitInputs_allData(avgs) ==
    Bind(DictMerge(avgs, verify_averages), LAMBDA all_data :
        SortPts([i \in 1..Len(all_data) |->
                   <<ParseFloat(all_data[i][1]).val, all_data[i][2]>>]))

\* lines 183-203: the inputs of the fit, from averages alone
FitInputs(avgs) == SortPts([i \in 1..Len(avgs) |-> <<ParseFloat(avgs[i][1]).val, avgs[i][2]>>])

\* np.polyfit(x, y, 1): the least-squares line.  When every x is the same
\* value a (rank deficient), lstsq returns the minimum-norm solution of the
\* column-scaled system: slope = mean(y) / (2a), intercept = mean(y) / 2;
\* with a = 0 the scaling divides by zero and lstsq raises.
Polyfit(pts) ==
    Bind(RInt(Len(pts)), LAMBDA n :
    Bind(RSum([i \in 1..Len(pts) |-> pts[i][1]]), LAMBDA Sx :
    Bind(RSum([i \in 1..Len(pts) |-> pts[i][2]]), LAMBDA Sy :
    Bind(RSum([i \in 1..Len(pts) |-> RMul(pts[i][1], pts[i][1])]), LAMBDA Sxx :
    Bind(RSum([i \in 1..Len(pts) |-> RMul(pts[i][1], pts[i][2])]), LAMBDA Sxy :
    Bind(RSub(RMul(n, Sxx), RMul(Sx, Sx)), LAMBDA den :
        IF den # RZero
        THEN Bind(RDiv(RSub(RMul(n, Sxy), RMul(Sx, Sy)), den), LAMBDA slope :
                 [ok |-> TRUE, slope |-> slope,
                  intercept |-> RDiv(RSub(Sy, RMul(slope, Sx)), n)])
        ELSE IF pts[1][1] # RZero
        THEN Bind(RDiv(Sy, n), LAMBDA my :
                 [ok |-> TRUE, slope |-> RDiv(my, RMul(RInt(2), pts[1][1])),
                  intercept |-> RDiv(my, RInt(2))])
        ELSE [ok |-> FALSE, slope |-> RZero, intercept |-> RZero]))))))

\* a plausible slip: the intercept added instead of subtracted
TargetParam_plus(slope, intercept, expected_pressure) ==
    IF slope # RZero
    THEN [kind |-> "num", val |-> RDiv(RAdd(expected_pressure, intercept), slope)]
    ELSE [kind |-> "inf", val |-> RZero]

\* line 208: (expected_pressure - coeffs[1]) / coeffs[0] in float64: division
\* by a zero slope is no error, it gives inf, or nan for 0 / 0
TargetParam(slope, intercept, expected_pressure) ==
    Bind(RSub(expected_pressure, intercept), LAMBDA num :
        IF slope # RZero THEN [kind |-> "num", val |-> RDiv(num, slope)]
        ELSE IF num = RZero THEN [kind |-> "nan", val |-> RZero]
        ELSE [kind |-> "inf", val |-> RZero])

\* lines 240-288: min() and max() of Python keep the data range when the
\* target is nan, so the axis limits are finite; with an infinite target the
\* limits are not, and set_xlim raises ValueError
PlotRaises(target) == target.kind = "inf"

\* analyze_averages: the exception it raises ("none" if it returns) and
\* what it computed up to there
analyze_averages(avgs, expected_pressure, colors) ==
    Bind(FitInputs(avgs), LAMBDA pts :
        IF Len(pts) < 2
        THEN [raised |-> "ValueError", fit |-> NoFit]
        ELSE Bind(Polyfit(pts), LAMBDA pf :
        IF ~pf.ok
        THEN [raised |-> "LinAlgError", fit |-> [NoFit EXCEPT !.state = "raised", !.pts = pts]]
        ELSE Bind(TargetParam(pf.slope, pf.intercept, expected_pressure), LAMBDA tp :
             [raised |-> IF colors = <<>> THEN "IndexError"     \* colors[0], line 221
                         ELSE IF PlotRaises(tp) THEN "ValueError" ELSE "none",
              fit |-> [state |-> IF colors = <<>> \/ PlotRaises(tp) THEN "raised" ELSE "done",
                       pts |-> pts, slope |-> pf.slope, intercept |-> pf.intercept,
                       target |-> tp]])))

\* main() lines 330-371: the averages are written, then analysed; the
\* predicted parameter is logged when analyze_averages returns, and any
\* exception ends in the top-level handler with its checklist
P_Finish ==
    /\ p_pc = "loop"
    /\ todo = <<>>
    /\ result_file' = [written |-> TRUE, lines |-> ResultLines(averages, verify_averages)]
    /\ \E r \in {analyze_averages(averages, cfg.expected_pressure, cfg.colors)} :
           /\ fit' = r.fit
           /\ p_error' = r.raised
           /\ reported' = IF r.raised = "none" THEN r.fit.target ELSE NoTarget
    /\ p_pc' = "end"
    /\ UNCHANGED <<cfg, root_exists, run_folders, todo, averages, verify_averages, runlog>>
    /\ UNCHANGED dvars

Next == P_Start \/ P_Folder \/ P_Finish

Spec == Init /\ [][Next]_vars

SpecWindow == InitWindow /\ [][Next]_vars

----------------------------------------------------------------------------
(* Diffusion pipeline: strings *)

\* str.lower() on the letters the names use
Lower(c) == CASE c = "T" -> "t" [] c = "K" -> "k" [] c = "O" -> "o" [] OTHER -> c

LowerStr(s) == [i \in 1..Len(s) |-> Lower(s[i])]

RECURSIVE LStrip(_)
LStrip(s) == IF s # <<>> /\ Head(s) = " " THEN LStrip(Tail(s)) ELSE s

RECURSIVE RStrip(_)
RStrip(s) == IF s # <<>> /\ s[Len(s)] = " " THEN RStrip(SubSeq(s, 1, Len(s) - 1)) ELSE s

\* str.strip()
Strip(s) == RStrip(LStrip(s))

\* sub in s
Contains(s, sub) ==
    \E i \in 0..(Len(s) - Len(sub)) : SubSeq(s, i + 1, i + Len(sub)) = sub

\* s.endswith(suf)
EndsWith(s, suf) ==
    Len(s) >= Len(suf) /\ SubSeq(s, Len(s) - Len(suf) + 1, Len(s)) = suf

Str_Time_fs == <<"T", "i", "m", "e", "(", "f", "s", ")">>
Str_dat     == <<".", "d", "a", "t">>

DigitChar(k) == <<"0", "1", "2", "3", "4", "5", "6", "7", "8", "9">>[k + 1]

\* k >= 0 written with exactly w digits
RECURSIVE DigitsOf(_, _)
DigitsOf(k, w) ==
    IF w = 0 THEN <<>> ELSE Append(DigitsOf(k \div 10, w - 1), DigitChar(k % 10))

\* k >= 0 written with as many digits as it needs
RECURSIVE IntChars(_)
IntChars(k) ==
    IF k < 10 THEN <<DigitChar(k)>> ELSE Append(IntChars(k \div 10), DigitChar(k % 10))

\* the decimal exponent e of a/d > 0: 10^e <= a/d < 10^(e+1)
RECURSIVE Exp10(_, _)
Exp10(a, d) ==
    IF a >= 10 * d THEN Exp10(a, 10 * d) + 1
    ELSE IF a < d THEN Exp10(10 * a, d) - 1
    ELSE 0

\* num/den rounded to the nearest integer, a tie to the even one
RoundDiv(num, den) ==
    LET q   == num \div den
        rem == num % den
    IN  IF 2 * rem > den \/ (2 * rem = den /\ q % 2 = 1) THEN q + 1 ELSE q

\* f"{D:.6e}": sign, one digit, six decimals, a signed two-digit exponent
FormatE6(r) ==
    LET a     == Abs(r[1])
        d     == r[2]
        e0    == IF a = 0 THEN 0 ELSE Exp10(a, d)
        m0    == IF a = 0 THEN 0
                 ELSE IF e0 <= 6 THEN RoundDiv(a * Pow10(6 - e0), d)
                 ELSE RoundDiv(a, d * Pow10(e0 - 6))
        carry == m0 = Pow10(7)
        m     == IF carry THEN Pow10(6) ELSE m0
        e     == IF carry THEN e0 + 1 ELSE e0
        ds    == DigitsOf(m, 7)
    IN  (IF r[1] < 0 THEN <<"-">> ELSE <<>>)
           \o <<ds[1], ".">> \o SubSeq(ds, 2, 7)
           \o <<"e", IF e < 0 THEN "-" ELSE "+">> \o DigitsOf(Abs(e), 2)

\* f"{r_squared:.4f}"
FormatF4(r) ==
    LET q == RoundDiv(Abs(r[1]) * Pow10(4), r[2])
    IN  (IF r[1] < 0 THEN <<"-">> ELSE <<>>)
           \o IntChars(q \div Pow10(4)) \o <<".">> \o DigitsOf(q % Pow10(4), 4)

----------------------------------------------------------------------------
(* data_reader.py *)

\* a line of a data file: whether it starts with a blank, and line.split()
Line(indent, fields) == [indent |-> indent, fields |-> fields]

\* line.startswith('#') or 'Time(fs)' in line
IsCommentLine(line) ==
    \/ ~line.indent /\ line.fields # <<>> /\ Head(line.fields[1]) = "#"
    \/ \E i \in 1..Len(line.fields) : Contains(line.fields[i], Str_Time_fs)

NoSeries(kind) == [kind |-> kind, time |-> <<>>, msd |-> <<>>]

\* one turn of the for loop of read_data; acc.raised: a float() has raised
\* ValueError
ReadLine(line, start_fs, end_fs, acc) ==
    LET data == line.fields
    IN  IF IsCommentLine(line) \/ Len(data) < 5 THEN acc
        ELSE Bind(ParseFloat(data[1]), LAMBDA time_fs :
               IF ~time_fs.ok THEN [acc EXCEPT !.raised = TRUE]
               ELSE IF RLeq(start_fs, time_fs.val) /\ RLeq(time_fs.val, end_fs)
               THEN Bind(ParseFloat(data[5]), LAMBDA value :
                      IF ~value.ok THEN [acc EXCEPT !.raised = TRUE]
                      ELSE [acc EXCEPT
                              !.time_original = Append(@, RDiv(time_fs.val, RInt(1000))),
                              !.tot_msd = Append(@, value.val)])
               ELSE acc)

\* the for loop of read_data from line i on
RECURSIVE ReadLoop(_, _, _, _, _)
ReadLoop(lines, i, start_fs, end_fs, acc) ==
    IF i > Len(lines) \/ acc.raised THEN acc
    ELSE Bind(ReadLine(lines[i], start_fs, end_fs, acc),
              LAMBDA acc2 : ReadLoop(lines, i + 1, start_fs, end_fs, acc2))

\* a plausible slip: the times are returned as they were read
Rebase_notRebased(time_original) == time_original

\* time = [t - start_ps for t in time_original]
Rebase(time_original) ==
    [i \in 1..Len(time_original) |-> RSub(time_original[i], time_original[1])]

\* read_data: kind "ok" with (time, tot_msd), or kind "raise"
read_data(lines, start_time_ps, end_time_ps) ==
    Bind(<<RMul(start_time_ps, RInt(1000)), RMul(end_time_ps, RInt(1000))>>, LAMBDA fs :
      Bind(ReadLoop(lines, 1, fs[1], fs[2],
                    [raised |-> FALSE, time_original |-> <<>>, tot_msd |-> <<>>]),
           LAMBDA acc :
             IF acc.raised THEN NoSeries("raise")
             ELSE [kind |-> "ok", time |-> Rebase(acc.time_original),
                   msd |-> acc.tot_msd]))

\* safe_read_file(file_path, read_data, start, end): None when read_data raises
safe_read_file(lines, start_time_ps, end_time_ps) ==
    Bind(read_data(lines, start_time_ps, end_time_ps),
         LAMBDA r : IF r.kind = "raise" THEN NoSeries("none") ELSE r)

\* get_all_data_files: the files whose name ends with ".dat", in listing order
get_all_data_files(files) == SelectSeq(files, LAMBDA f : EndsWith(f.name, Str_dat))

----------------------------------------------------------------------------
(* diffusion_calculator.py *)

RMean(s) == RDiv(RSum(s), RInt(Len(s)))

\* scipy.stats.linregress on x: ValueError when two or more x are all identical,
\* a nan slope and intercept (0/0) on one point, a line otherwise
LinregressKind(x) ==
    IF Len(x) > 1 /\ \A i \in 1..Len(x) : x[i] = x[1] THEN "raise"
    ELSE IF Len(x) = 1 THEN "nan"
    ELSE "ok"

\* scipy.stats.linregress(x, y) where LinregressKind(x) = "ok"
linregress(x, y) ==
    LET n      == Len(x)
        means  == <<RMean(x), RMean(y)>>
        ss(m)  == <<RMean([i \in 1..n |-> RMul(RSub(x[i], m[1]), RSub(x[i], m[1]))]),
                    RMean([i \in 1..n |-> RMul(RSub(x[i], m[1]), RSub(y[i], m[2]))]),
                    RMean([i \in 1..n |-> RMul(RSub(y[i], m[2]), RSub(y[i], m[2]))])>>
    IN  Bind(means, LAMBDA m :
          Bind(ss(m), LAMBDA s :
            Bind(RDiv(s[2], s[1]), LAMBDA slope :
               [slope     |-> slope,
                intercept |-> RSub(m[2], RMul(slope, m[1])),
                r_squared |-> IF s[3] = RZero THEN RZero
                              ELSE RDiv(RMul(s[2], s[2]), RMul(s[1], s[3]))])))

NoResult(kind) == [kind |-> kind, D |-> RZero, slope |-> RZero, intercept |-> RZero,
                   r_squared |-> RZero]

\* D = slope / 3
DiffusionFromSlope_by3(slope) == RDiv(slope, RInt(3))

\* D = slope / 6
DiffusionFromSlope(slope) == RDiv(slope, RInt(6))

\* fit_indices: the positions whose time lies in [fit_start, fit_end]
FitIndices(time, fit_start, fit_end) ==
    SelectSeq([i \in 1..Len(time) |-> i],
              LAMBDA i : RLeq(fit_start, time[i]) /\ RLeq(time[i], fit_end))

\* compute_diffusion_coefficient: kind "none" (returns None), "raise" (linregress
\* raises ValueError) or "result" with (D, slope, intercept, r_value**2)
compute_diffusion_coefficient(time, msd, fit_start, fit_end) ==
    Bind(FitIndices(time, fit_start, fit_end), LAMBDA fit_indices :
      IF Len(fit_indices) < 2 THEN NoResult("none")
      ELSE Bind(<<[k \in 1..Len(fit_indices) |-> time[fit_indices[k]]],
                  [k \in 1..Len(fit_indices) |-> msd[fit_indices[k]]]>>, LAMBDA sel :
             IF LinregressKind(sel[1]) = "raise" THEN NoResult("raise")
             ELSE Bind(linregress(sel[1], sel[2]), LAMBDA reg :
                    [kind |-> "result", D |-> DiffusionFromSlope(reg.slope),
                     slope |-> reg.slope, intercept |-> reg.intercept,
                     r_squared |-> reg.r_squared])))

----------------------------------------------------------------------------
(* process_data.py *)

\* if time and msd: stored whatever the series holds
HasData_always(time, msd) == TRUE

\* if time and msd
HasData(time, msd) == time # <<>> /\ msd # <<>>

\* unique_key = f"{temperature}_{file_name}"
UniqueKey(temperature, file_name) == temperature \o <<"_">> \o file_name

\* not target or target in file_name.lower()
TargetMatches(config_data, file_name) ==
    LET target == Strip(LowerStr(config_data.target_keyword))
    IN  target = <<>> \/ Contains(LowerStr(file_name), target)

\* process_single_file: the three dictionaries after the call, whether an
\* exception left the call, and the record of the call for the history
ProcessOutcome(file, d_results, d_dict, f_params, temperature, fit_start, fit_end, config_data, rd, res) ==
    LET unique_key == UniqueKey(temperature, file.name)
        result == IF rd.kind = "raise" THEN NoSeries("none") ELSE rd
        has    == HasData(result.time, result.msd)
        save   == res.kind = "result" /\ TargetMatches(config_data, file.name)
    IN  [data_dict |-> IF has THEN DictSet(d_dict, unique_key, <<result.time, result.msd>>)
                       ELSE d_dict,
         diffusion_results |->
             IF save THEN DictSet(d_results, unique_key,
                                  <<res.D, res.r_squared, temperature>>)
             ELSE d_results,
         fit_params |->
             IF save THEN DictSet(f_params, unique_key, <<res.slope, res.intercept>>)
             ELSE f_params,
         raised |-> res.kind = "raise",
         entry  |-> [temperature |-> temperature, file |-> file.name,
                     key |-> unique_key, lines |-> file.lines, read |-> rd,
                     time |-> result.time, msd |-> result.msd, stored |-> has,
                     fit_start |-> fit_start, fit_end |-> fit_end,
                     fit |-> res, saved |-> save]]

process_single_file(file, d_results, d_dict, f_params, temperature, fit_start, fit_end, config_data) ==
    Bind(read_data(file.lines, config_data.start_time_ps, config_data.end_time_ps),
         LAMBDA rd :
           Bind(safe_read_file(file.lines, config_data.start_time_ps,
                               config_data.end_time_ps),
                LAMBDA result :
                  Bind(IF ~HasData(result.time, result.msd) THEN NoResult("nodata")
                       ELSE IF config_data.ENABLE_FITTING = 0 THEN NoResult("off")
                       ELSE compute_diffusion_coefficient(result.time, result.msd,
                                                          fit_start, fit_end),
                       LAMBDA res :
                         ProcessOutcome(file, d_results, d_dict, f_params, temperature,
                                        fit_start, fit_end, config_data, rd, res))))

\* lines 23-24: os.makedirs(output_dir, exist_ok=True) adds the folder "output"
\* to the data folder unless it is there (its place in the listing has no
\* effect, line 34 filters it out: it is put last)
MakeOutputDir(folders) ==
    IF \E i \in 1..Len(folders) : folders[i].name = Str_output THEN folders
    ELSE Append(folders, [name |-> Str_output, files |-> <<>>])

----------------------------------------------------------------------------
(* config.py *)

\* the sub-directories of the data folder without "output", in listing order
TemperatureGroups(folders) ==
    SelectSeq(folders, LAMBDA f : LowerStr(f.name) # Str_output)

\* load_config, lines 59-79: the configuration made when config.json is
\* missing (the key "output_dir" is read nowhere and is left out)
DefaultConfig(folders) ==
    Bind(TemperatureGroups(folders), LAMBDA temperature_groups :
      [ENABLE_FITTING |-> 1, target_keyword |-> <<"t", "i">>,
       fit_ranges |-> [i \in 1..Len(temperature_groups) |->
                         <<temperature_groups[i].name, <<RInt(20), RInt(30)>>>>],
       start_time_ps |-> RInt(20), end_time_ps |-> RInt(30)])

\* load_config at time now: json.load raises on a text that is no JSON; a
\* missing config.json is written with the default configuration
load_config(file, folders, now) ==
    IF file.exists
    THEN [raised |-> ~file.valid, config_data |-> file.data, file |-> file,
          clock |-> now]
    ELSE Bind(DefaultConfig(folders), LAMBDA config_data :
           [raised |-> FALSE, config_data |-> config_data,
            file |-> ConfigFile(config_data, now + 1), clock |-> now + 1])

----------------------------------------------------------------------------
(* main.py *)

\* run_pipeline, lines 16-37: the configuration is loaded, the output folder
\* is made, the dictionaries are fresh, the sub-directories of the data folder
\* are taken in listing order without "output"; an exception of load_config
\* leaves run_pipeline
D_Start ==
    /\ d_pc = "start"
    /\ runs' = runs + 1
    /\ \E lc \in {load_config(config_json, disk, clock)} :
          IF lc.raised
          THEN /\ d_pc' = "raised"
               /\ UNCHANGED <<d_cfg, disk, diffusion_results, fit_params, root_todo,
                              cvars>>
          ELSE /\ d_cfg' = lc.config_data
               /\ config_json' = lc.file
               /\ clock' = lc.clock
               /\ disk' = MakeOutputDir(disk)
               /\ diffusion_results' = <<>>
               /\ fit_params' = <<>>
               /\ root_todo' = SelectSeq([i \in 1..Len(disk') |-> i],
                                         LAMBDA i : LowerStr(disk'[i].name) # Str_output)
               /\ d_pc' = "folders"
    /\ UNCHANGED <<cur_folder, data_dict, filelog, folder_errors, csv_file, arrhenius,
                   mvars>>
    /\ UNCHANGED pvars

\* process_temperature_folder up to its for loop: no .dat file or no fit range
\* for the folder name ends the call
D_Folder ==
    /\ d_pc = "folders"
    /\ root_todo # <<>>
    /\ LET folder      == disk[Head(root_todo)]
           temperature == folder.name
           data_files  == get_all_data_files(folder.files)
       IN  IF data_files = <<>> \/ temperature \notin DictKeys(d_cfg.fit_ranges)
           THEN UNCHANGED <<d_pc, cur_folder>>
           ELSE /\ cur_folder' = [temperature |-> temperature,
                                  fit_start |-> DictGet(d_cfg.fit_ranges, temperature)[1],
                                  fit_end |-> DictGet(d_cfg.fit_ranges, temperature)[2],
                                  files |-> data_files]
                /\ d_pc' = "files"
    /\ root_todo' = Tail(root_todo)
    /\ data_dict' = <<>>
    /\ UNCHANGED <<d_cfg, disk, diffusion_results, fit_params, filelog, folder_errors,
                   csv_file, arrhenius, runs>>
    /\ UNCHANGED <<cvars, mvars>>
    /\ UNCHANGED pvars

\* one turn of the for loop of process_temperature_folder; an exception leaves
\* the folder for the except clause of run_pipeline
D_File ==
    /\ d_pc = "files"
    /\ cur_folder.files # <<>>
    /\ \E r \in {process_single_file(Head(cur_folder.files), diffusion_results,
                                       data_dict, fit_params, cur_folder.temperature,
                                       cur_folder.fit_start, cur_folder.fit_end, d_cfg)} :
           /\ diffusion_results' = r.diffusion_results
           /\ fit_params' = r.fit_params
           /\ filelog' = Append(filelog, r.entry)
           /\ IF r.raised
              THEN /\ folder_errors' = Append(folder_errors, cur_folder.temperature)
                   /\ cur_folder' = NoFolder
                   /\ data_dict' = <<>>
                   /\ d_pc' = "folders"
              ELSE /\ cur_folder' = [cur_folder EXCEPT !.files = Tail(@)]
                   /\ data_dict' = r.data_dict
                   /\ d_pc' = IF Tail(cur_folder.files) = <<>> THEN "plot" ELSE "files"
                   /\ UNCHANGED folder_errors
    /\ UNCHANGED <<d_cfg, disk, root_todo, csv_file, arrhenius, runs>>
    /\ UNCHANGED <<cvars, mvars>>
    /\ UNCHANGED pvars

\* the call of plotter.plot_msd that ends process_temperature_folder: its first
\* statement reads config.COLORS, which config.py does not define, so the call
\* raises AttributeError into the except clause of run_pipeline
D_Plot ==
    /\ d_pc = "plot"
    /\ folder_errors' = Append(folder_errors, cur_folder.temperature)
    /\ cur_folder' = NoFolder
    /\ data_dict' = <<>>
    /\ d_pc' = "folders"
    /\ UNCHANGED <<d_cfg, disk, root_todo, diffusion_results, fit_params, filelog,
                   csv_file, arrhenius, runs>>
    /\ UNCHANGED <<cvars, mvars>>
    /\ UNCHANGED pvars

\* a plausible slip: the file opened with append=True, the rows added below
\* those of the earlier runs
save_diffusion_results_append(results) ==
    [exists |-> TRUE,
     rows   |-> csv_file.rows \o
                [i \in 1..Len(results) |->
                    <<results[i][2][3], FormatE6(results[i][2][1]),
                      FormatF4(results[i][2][2])>>]]

\* save_diffusion_results: the file is rewritten, one row per entry of results
save_diffusion_results(results) ==
    [exists |-> TRUE,
     rows   |-> [i \in 1..Len(results) |->
                    <<results[i][2][3], FormatE6(results[i][2][1]),
                      FormatF4(results[i][2][2])>>]]

D_Save ==
    /\ d_pc = "folders"
    /\ root_todo = <<>>
    /\ csv_file' = save_diffusion_results(diffusion_results)
    /\ d_pc' = "arrhenius"
    /\ UNCHANGED <<d_cfg, disk, root_todo, cur_folder, data_dict, diffusion_results,
                   fit_params, filelog, folder_errors, arrhenius, runs>>
    /\ UNCHANGED <<cvars, mvars>>
    /\ UNCHANGED pvars

----------------------------------------------------------------------------
(* plot_diffusion.py *)

\* parse_temperature: ok = FALSE stands for None
parse_temperature(temp_str) ==
    LET t == Strip(temp_str)
    IN  IF EndsWith(LowerStr(t), <<"k">>) THEN ParseFloat(SubSeq(t, 1, Len(t) - 1))
        ELSE ParseFloat(t)

\* the for loop of read_diffusion_csv over the rows below the header
RECURSIVE ReadCsvRows(_, _)
ReadCsvRows(rows, data) ==
    IF rows = <<>> THEN data
    ELSE LET temp_str == Strip(Head(rows)[1])
             D_str    == Strip(Head(rows)[2])
             T        == parse_temperature(temp_str)
             D        == ParseFloat(D_str)
         IN  IF ~T.ok \/ ~D.ok THEN ReadCsvRows(Tail(rows), data)
             ELSE Bind(DictSet(data, T.val,
                               Append(IF T.val \in DictKeys(data) THEN DictGet(data, T.val)
                                      ELSE <<>>, D.val)),
                       LAMBDA data2 : ReadCsvRows(Tail(rows), data2))

read_diffusion_csv(csv) == Bind(csv.rows, LAMBDA rows : ReadCsvRows(rows, <<>>))

RECURSIVE InsertRat(_, _)
InsertRat(x, s) ==
    IF s = <<>> THEN <<x>>
    ELSE IF RLess(x, Head(s)) THEN <<x>> \o s
    ELSE <<Head(s)>> \o InsertRat(x, Tail(s))

\* sorted(raw_data.keys())
RECURSIVE SortedRats(_)
SortedRats(S) ==
    IF S = {} THEN <<>>
    ELSE LET x == CHOOSE y \in S : TRUE IN InsertRat(x, SortedRats(S \ {x}))

\* values[values >= 0]
PositiveValues_withZero(values) == SelectSeq(values, LAMBDA v : RLeq(RZero, v))

\* values[values > 0]
PositiveValues(values) == SelectSeq(values, LAMBDA v : RLess(RZero, v))

\* a plausible slip: the abscissa of the usual Arrhenius plot, 1000/T
InverseTemperature_per1000(T) == RDiv(RInt(1000), T)

\* line 79: temperatures_used.append(1/T)
InverseTemperature(T) == RDiv(RInt(1), T)

\* the for loop over sorted(raw_data.keys()): a point per temperature with a
\* positive value, its abscissa 1/T and the values whose ln is averaged;
\* acc.raised: 1/T has raised ZeroDivisionError
RECURSIVE GroupLoop(_, _, _)
GroupLoop(keys, raw_data, acc) ==
    IF keys = <<>> THEN acc
    ELSE LET T               == Head(keys)
             positive_values == PositiveValues(DictGet(raw_data, T))
         IN  IF positive_values = <<>> THEN GroupLoop(Tail(keys), raw_data, acc)
             ELSE IF T = RZero THEN [acc EXCEPT !.raised = TRUE]
             ELSE GroupLoop(Tail(keys), raw_data,
                      [acc EXCEPT !.points =
                          Append(@, [T |-> T, x |-> InverseTemperature(T),
                                     ln_of |-> positive_values])])

\* plot_diffusion_coefficients: the state it ends in, the points it regresses,
\* whether fitting_results.txt is written and whether the fitted line and D0 it
\* holds are numbers ("num") or nan ("nan")
ArrheniusOutcome(state, raw_data, points, written, line) ==
    [state |-> state, raw_data |-> raw_data, points |-> points, written |-> written,
     line |-> line]

\* the part of plot_diffusion_coefficients below the for loop
FitGroups(raw_data, acc) ==
    LET xs == [i \in 1..Len(acc.points) |-> acc.points[i].x]
    IN  IF acc.raised THEN ArrheniusOutcome("error", raw_data, <<>>, FALSE, "none")
        ELSE IF acc.points = <<>>
        THEN ArrheniusOutcome("nogroups", raw_data, <<>>, FALSE, "none")
        ELSE IF LinregressKind(xs) = "raise"
        THEN ArrheniusOutcome("error", raw_data, acc.points, FALSE, "none")
        ELSE ArrheniusOutcome("fitted", raw_data, acc.points, TRUE,
                              IF LinregressKind(xs) = "nan" THEN "nan" ELSE "num")

plot_diffusion_coefficients(csv) ==
    IF ~csv.exists THEN ArrheniusOutcome("error", <<>>, <<>>, FALSE, "none")
    ELSE Bind(read_diffusion_csv(csv), LAMBDA raw_data :
            IF raw_data = <<>>
            THEN ArrheniusOutcome("nodata", raw_data, <<>>, FALSE, "none")
            ELSE Bind(GroupLoop(SortedRats(DictKeys(raw_data)), raw_data,
                                [raised |-> FALSE, points |-> <<>>]),
                      LAMBDA acc : FitGroups(raw_data, acc)))

D_Arrhenius ==
    /\ d_pc = "arrhenius"
    /\ arrhenius' = plot_diffusion_coefficients(csv_file)
    /\ d_pc' = "end"
    /\ UNCHANGED <<d_cfg, disk, root_todo, cur_folder, data_dict, diffusion_results,
                   fit_params, filelog, folder_errors, csv_file, runs>>
    /\ UNCHANGED <<cvars, mvars>>
    /\ UNCHANGED pvars

NextDiffusion == D_Start \/ D_Folder \/ D_File \/ D_Plot \/ D_Save \/ D_Arrhenius

NextArrhenius == D_Arrhenius

----------------------------------------------------------------------------
(* Diffusion pipeline: the inputs *)

\* the longest data file, in lines
MaxLines == 3
\* the longest diffusion_coefficients.csv, in rows below the header
MaxRows == 3

SeqsUpTo(S, n) == UNION {[1..k -> S] : k \in 0..n}

Str_Ti_dat == <<"T", "i", ".", "d", "a", "t">>
Str_pb_dat == <<"p", "b", ".", "d", "a", "t">>
Str_ti_txt == <<"t", "i", ".", "t", "x", "t">>
Str_600K   == <<"6", "0", "0", "K">>
Str_300K   == <<"3", "0", "0", "K">>
Str_600    == <<"6", "0", "0">>
Str_0K     == <<"0", "K">>
Str_abc    == <<"a", "b", "c">>

Fs_0    == <<"0">>
Fs_500  == <<"5", "0", "0">>
Fs_1000 == <<"1", "0", "0", "0">>
Fs_1500 == <<"1", "5", "0", "0">>

\* a data line: Time(fs), MSD_x, MSD_y, MSD_z, MSD_total
Row(t, v) == Line(FALSE, <<t, <<"0">>, <<"0">>, <<"0">>, v>>)

HeaderFields == <<Str_Time_fs, <<"x">>, <<"y">>, <<"z">>, <<"t", "o", "t">>>>

\* the lines of the file under study when reading is studied: the two headers,
\* a comment behind a blank, a line of two fields, samples inside and outside
\* the windows, samples whose time or value is not a number
LineUniverse ==
    {Line(FALSE, <<<<"#">>>> \o HeaderFields),
     Line(FALSE, HeaderFields),
     Line(TRUE, <<<<"#">>, <<"a">>, <<"b">>, <<"c">>, <<"d">>>>),
     Line(FALSE, <<Fs_500, <<"3">>>>),
     Row(Fs_0, <<"0">>), Row(Fs_500, <<"3">>), Row(Fs_1000, <<"6">>),
     Row(Fs_1500, <<"9">>),
     Row(Str_abc, <<"3">>), Row(Fs_500, <<"x">>), Row(Fs_1500, <<"x">>)}

\* the samples of the file under study when fitting is studied: the line
\* msd = 6 t, a steeper and a falling sample, two samples at one time
RowUniverse ==
    {Row(Fs_0, <<"0">>), Row(Fs_500, <<"3">>), Row(Fs_1000, <<"6">>),
     Row(Fs_500, <<"6">>), Row(Fs_1000, <<"0">>)}

File(name, lines) == [name |-> name, lines |-> lines]

GoodLines == <<Row(Fs_0, <<"0">>), Row(Fs_500, <<"3">>), Row(Fs_1000, <<"6">>)>>

\* a second file of the folder: a good series, a series outside every window,
\* a file with a malformed line, a file that is no .dat file
Companions ==
    {File(Str_pb_dat, GoodLines),
     File(Str_pb_dat, <<Row(Fs_1500, <<"9">>)>>),
     File(Str_pb_dat, <<Row(Str_abc, <<"3">>)>>),
     File(Str_ti_txt, GoodLines)}

\* (start_time_ps, end_time_ps) of config.json
ReadWindows == {<<RZero, RInt(1)>>, <<Rat(1, 2), RInt(1)>>, <<Rat(1, 2), Rat(1, 2)>>,
                <<RInt(1), RZero>>}

FitWindows == {<<RZero, RInt(1)>>, <<RZero, RZero>>, <<Rat(1, 2), RInt(1)>>}

Config(enable, target, range, window) ==
    [ENABLE_FITTING |-> enable, target_keyword |-> target,
     fit_ranges |-> <<<<Str_600K, range>>>>,
     start_time_ps |-> window[1], end_time_ps |-> window[2]]

Folder(name, files) == [name |-> name, files |-> files]

\* run_pipeline is about to start
DiffusionStart ==
    /\ PressureIdle
    /\ d_pc = "start"
    /\ root_todo = <<>>
    /\ cur_folder = NoFolder
    /\ data_dict = <<>>
    /\ diffusion_results = <<>>
    /\ fit_params = <<>>
    /\ filelog = <<>>
    /\ folder_errors = <<>>
    /\ csv_file = NoCsv
    /\ arrhenius = NoArrhenius
    /\ runs = 0
    /\ clock = 0
    /\ MainIdle

\* reading: one folder, every file of at most MaxLines lines followed by a good
\* file, under every window
InitRead ==
    /\ DiffusionStart
    /\ \E ls \in SeqsUpTo(LineUniverse, MaxLines) :
          disk = <<Folder(Str_600K, <<File(Str_Ti_dat, ls), File(Str_pb_dat, GoodLines)>>)>>
    /\ \E w \in ReadWindows : d_cfg = Config(1, <<>>, <<RZero, RInt(1)>>, w)
    /\ config_json = ConfigFile(d_cfg, 0)

\* fitting: one folder, every series of at most MaxLines samples, alone or
\* before or after a second file, under every fit range
InitFiles ==
    /\ DiffusionStart
    /\ \E ls \in SeqsUpTo(RowUniverse, MaxLines) :
          LET study == File(Str_Ti_dat, ls)
          IN  \/ disk = <<Folder(Str_600K, <<study>>)>>
              \/ \E c \in Companions :
                    \/ disk = <<Folder(Str_600K, <<study, c>>)>>
                    \/ disk = <<Folder(Str_600K, <<c, study>>)>>
    /\ \E enable \in {0, 1}, target \in {<<>>, <<"T", "i">>}, range \in FitWindows,
          w \in {<<RZero, RInt(1)>>, <<Rat(1, 2), RInt(1)>>} :
          d_cfg = Config(enable, target, range, w)
    /\ config_json = ConfigFile(d_cfg, 0)

\* the Temperature and Diffusion Coefficient cells of a row of the csv file
CsvTemperatures == {Str_300K, Str_600K, Str_600, Str_0K, Str_abc}

CsvCoefficients == {FormatE6(Rat(1, 2)), FormatE6(RInt(1)), FormatE6(RZero),
                    FormatE6(Rat(-1, 2))}

CsvRows == {<<t, d, FormatF4(RInt(1))>> : t \in CsvTemperatures, d \in CsvCoefficients}

\* plot_diffusion.py run on a csv file of at most MaxRows rows
InitArrhenius ==
    /\ PressureIdle
    /\ d_pc = "arrhenius"
    /\ d_cfg = NoConfig
    /\ disk = <<>>
    /\ root_todo = <<>>
    /\ cur_folder = NoFolder
    /\ data_dict = <<>>
    /\ diffusion_results = <<>>
    /\ fit_params = <<>>
    /\ filelog = <<>>
    /\ folder_errors = <<>>
    /\ \E rows \in SeqsUpTo(CsvRows, MaxRows) : csv_file = [exists |-> TRUE, rows |-> rows]
    /\ arrhenius = NoArrhenius
    /\ runs = 0
    /\ config_json = NoConfigFile
    /\ clock = 0
    /\ MainIdle

\* most calls of run_pipeline in one life of main()
MaxRuns == 2

Str_900K == <<"9", "0", "0", "K">>

\* the temperature folders of a data folder, each with the listing of its
\* files: one good series; two good series listed against the order of their
\* names; a series on which the regression raises, listed before a good one;
\* the output folder
TreeFolders ==
    {Folder(Str_300K, <<File(Str_Ti_dat, GoodLines)>>),
     Folder(Str_600K, <<File(Str_pb_dat, GoodLines),
                        File(Str_Ti_dat, <<Row(Fs_0, <<"0">>), Row(Fs_500, <<"6">>)>>)>>),
     Folder(Str_900K, <<File(Str_Ti_dat, <<Row(Fs_0, <<"0">>), Row(Fs_0, <<"0">>)>>),
                        File(Str_pb_dat, GoodLines)>>),
     Folder(Str_output, <<>>)}

\* os.listdir(data_folder): some of the folders, in any order
Listings ==
    {l \in SeqsUpTo(TreeFolders, Cardinality(TreeFolders)) :
        \A i, k \in 1..Len(l) : l[i] = l[k] => i = k}

\* a data folder of several temperature groups, listed in any order, with a
\* fit range for every group
InitTree ==
    /\ DiffusionStart
    /\ disk \in Listings
    /\ \E target \in {<<>>, <<"T", "i">>} :
          d_cfg = [ENABLE_FITTING |-> 1, target_keyword |-> target,
                   fit_ranges |-> <<<<Str_300K, <<RZero, RInt(1)>>>>,
                                    <<Str_600K, <<RZero, RInt(1)>>>>,
                                    <<Str_900K, <<RZero, RInt(1)>>>>>>,
                   start_time_ps |-> RZero, end_time_ps |-> RInt(1)]
    /\ config_json = ConfigFile(d_cfg, 0)

\* main(), lines 87-96: a later poll calls run_pipeline again; the files and
\* config.json are as they were
D_Again ==
    /\ d_pc = "end"
    /\ runs < MaxRuns
    /\ d_pc' = "start"
    /\ UNCHANGED <<d_cfg, disk, root_todo, cur_folder, data_dict, diffusion_results,
                   fit_params, filelog, folder_errors, csv_file, arrhenius, runs>>
    /\ UNCHANGED <<cvars, mvars>>
    /\ UNCHANGED pvars

Fs_20000 == <<"2", "0", "0", "0", "0">>
Fs_25000 == <<"2", "5", "0", "0", "0">>
Fs_30000 == <<"3", "0", "0", "0", "0">>

\* the samples of the file under study when the default configuration is
\* studied: one before the default window, three inside it
LateRowUniverse ==
    {Row(Fs_0, <<"0">>), Row(Fs_20000, <<"3">>), Row(Fs_25000, <<"6">>),
     Row(Fs_30000, <<"9">>)}

LateLines == <<Row(Fs_20000, <<"3">>), Row(Fs_25000, <<"6">>), Row(Fs_30000, <<"9">>)>>

\* (start_time_ps, end_time_ps) and (fit_start, fit_end) of a config.json at
\* the scale of the default configuration
LateReadWindows == {<<RInt(20), RInt(30)>>, <<RZero, RInt(30)>>}

LateFitWindows == {<<RInt(20), RInt(30)>>, <<RInt(5), RInt(10)>>, <<RZero, RInt(10)>>}

\* two temperature groups, every series of at most MaxLines samples in the
\* first, in any order of time; config.json is missing, or holds one of the
\* windows and fit ranges
InitRebase ==
    /\ DiffusionStart
    /\ \E ls \in SeqsUpTo(LateRowUniverse, MaxLines) :
          disk = <<Folder(Str_600K, <<File(Str_Ti_dat, ls)>>),
                   Folder(Str_300K, <<File(Str_Ti_dat, LateLines)>>)>>
    /\ \/ /\ d_cfg = NoConfig
          /\ config_json = NoConfigFile
       \/ /\ \E w \in LateReadWindows, range \in LateFitWindows :
                d_cfg = [ENABLE_FITTING |-> 1, target_keyword |-> <<"t", "i">>,
                         fit_ranges |-> <<<<Str_600K, range>>, <<Str_300K, range>>>>,
                         start_time_ps |-> w[1], end_time_ps |-> w[2]]
          /\ config_json = ConfigFile(d_cfg, 0)

\* most polls of the while loop of main()
MaxPolls == 3
\* most changes of config.json made from outside while main() runs
MaxStamp == 2

\* config.json holding a text that json.load refuses
BrokenConfigFile(mtime) ==
    [exists |-> TRUE, mtime |-> mtime, valid |-> FALSE, data |-> NoConfig]

\* the configurations a user saves
SavedConfigs == {Config(1, <<>>, <<RZero, RInt(1)>>, <<RZero, RInt(1)>>),
                 Config(1, <<>>, <<Rat(1, 2), RInt(1)>>, <<RZero, RInt(1)>>)}

\* main() is about to start on a data folder of one temperature group;
\* config.json is missing, holds a configuration or holds a broken text
InitMain ==
    /\ PressureIdle
    /\ d_pc = "idle"
    /\ d_cfg = NoConfig
    /\ disk = <<Folder(Str_600K, <<File(Str_Ti_dat, GoodLines)>>)>>
    /\ root_todo = <<>>
    /\ cur_folder = NoFolder
    /\ data_dict = <<>>
    /\ diffusion_results = <<>>
    /\ fit_params = <<>>
    /\ filelog = <<>>
    /\ folder_errors = <<>>
    /\ csv_file = NoCsv
    /\ arrhenius = NoArrhenius
    /\ runs = 0
    /\ clock = 0
    /\ config_json \in {NoConfigFile, BrokenConfigFile(0)}
                       \cup {ConfigFile(c, 0) : c \in SavedConfigs}
    /\ main_pc = "begin"
    /\ last_mtime = <<>>
    /\ current_mtime = <<>>
    /\ polls = <<>>

\* os.path.getmtime(config_file) if os.path.exists(config_file) else None
GetMtime(file) == IF file.exists THEN <<file.mtime>> ELSE <<>>

\* main(), lines 75-84: last_mtime is read and run_pipeline is called
M_Begin ==
    /\ main_pc = "begin"
    /\ last_mtime' = GetMtime(config_json)
    /\ main_pc' = "initial"
    /\ d_pc' = "start"
    /\ UNCHANGED <<d_cfg, disk, root_todo, cur_folder, data_dict, diffusion_results,
                   fit_params, filelog, folder_errors, csv_file, arrhenius, runs,
                   cvars, current_mtime, polls>>
    /\ UNCHANGED pvars

\* last_mtime is None or current_mtime > last_mtime
IsNewer(current, last) == last = <<>> \/ current[1] > last[1]

\* main(), lines 89-100: one poll after the sleep, up to the call of
\* run_pipeline
M_Poll ==
    /\ main_pc = "sleep"
    /\ Len(polls) < MaxPolls
    /\ \E start \in {config_json.exists
                       /\ IsNewer(GetMtime(config_json), last_mtime)} :
          /\ polls' = Append(polls, [exists |-> config_json.exists,
                                     mtime |-> config_json.mtime,
                                     last |-> last_mtime, started |-> start])
          /\ current_mtime' = IF config_json.exists THEN GetMtime(config_json)
                              ELSE current_mtime
          /\ IF start THEN main_pc' = "rerun" /\ d_pc' = "start"
                      ELSE UNCHANGED <<main_pc, d_pc>>
    /\ UNCHANGED <<d_cfg, disk, root_todo, cur_folder, data_dict, diffusion_results,
                   fit_params, filelog, folder_errors, csv_file, arrhenius, runs,
                   cvars, last_mtime>>
    /\ UNCHANGED pvars

\* run_pipeline has returned or raised.  The initial call (line 84) stands
\* outside every try: an exception ends main().  After the call of line 95,
\* line 96 records current_mtime; an exception skips line 96 and is logged by
\* the except of lines 104-105, and the loop goes on
M_Return ==
    /\ main_pc \in {"initial", "rerun"}
    /\ d_pc \in {"end", "raised"}
    /\ d_pc' = "idle"
    /\ main_pc' = IF main_pc = "initial" /\ d_pc = "raised" THEN "crashed" ELSE "sleep"
    /\ last_mtime' = IF main_pc = "rerun" /\ d_pc = "end" THEN current_mtime
                     ELSE last_mtime
    /\ UNCHANGED <<d_cfg, disk, root_todo, cur_folder, data_dict, diffusion_results,
                   fit_params, filelog, folder_errors, csv_file, arrhenius, runs,
                   cvars, current_mtime, polls>>
    /\ UNCHANGED pvars

\* main(), lines 101-103: Ctrl+C during the sleep ends the loop
M_Interrupt ==
    /\ main_pc = "sleep"
    /\ main_pc' = "stopped"
    /\ UNCHANGED <<d_pc, d_cfg, disk, root_todo, cur_folder, data_dict,
                   diffusion_results, fit_params, filelog, folder_errors, csv_file,
                   arrhenius, runs, cvars, last_mtime, current_mtime, polls>>
    /\ UNCHANGED pvars

\* the user saves config.json while main() runs: a configuration or a text
\* that is no JSON; the file gets the time of the save
E_Write ==
    /\ main_pc \notin {"idle", "crashed", "stopped"}
    /\ clock < MaxStamp
    /\ clock' = clock + 1
    /\ config_json' \in {BrokenConfigFile(clock')}
                        \cup {ConfigFile(c, clock') : c \in SavedConfigs}
    /\ UNCHANGED <<d_pc, d_cfg, disk, root_todo, cur_folder, data_dict,
                   diffusion_results, fit_params, filelog, folder_errors, csv_file,
                   arrhenius, runs, mvars>>
    /\ UNCHANGED pvars

\* the user removes config.json while main() runs
E_Delete ==
    /\ main_pc \notin {"idle", "crashed", "stopped"}
    /\ clock < MaxStamp
    /\ config_json.exists
    /\ clock' = clock + 1
    /\ config_json' = NoConfigFile
    /\ UNCHANGED <<d_pc, d_cfg, disk, root_todo, cur_folder, data_dict,
                   diffusion_results, fit_params, filelog, folder_errors, csv_file,
                   arrhenius, runs, mvars>>
    /\ UNCHANGED pvars

NextMain ==
    \/ M_Begin \/ M_Poll \/ M_Return \/ M_Interrupt
    \/ D_Start \/ D_Folder \/ D_File \/ D_Plot \/ D_Save \/ D_Arrhenius
    \/ E_Write \/ E_Delete

NextRerun == D_Start \/ D_Folder \/ D_File \/ D_Plot \/ D_Save \/ D_Arrhenius \/ D_Again

SpecRead == InitRead /\ [][NextDiffusion]_vars

SpecFiles == InitFiles /\ [][NextDiffusion]_vars

SpecArrhenius == InitArrhenius /\ [][NextArrhenius]_vars

SpecRerun == InitTree /\ [][NextRerun]_vars

SpecRebase == InitRebase /\ [][NextDiffusion]_vars

SpecMain == InitMain /\ [][NextMain]_vars

----------------------------------------------------------------------------
(* Claims about the pressure pipeline *)

Stored(e) == e.outcome \in {"ok", "ploterror"}

LogIdx == 1..Len(runlog)

C2_IgnoreFirst ==
    /\ \A j \in LogIdx :
          Prefix(runlog[j].folder) \in cfg.ignore_dirs =>
             /\ runlog[j].outcome = "ignored"
             /\ runlog[j].n = 0
             /\ runlog[j].kept = <<>>
    /\ \A d \in {averages, verify_averages} :
          \A i \in 1..Len(d) :
             \E j \in LogIdx :
                /\ Stored(runlog[j])
                /\ Prefix(runlog[j].folder) \notin cfg.ignore_dirs
                /\ runlog[j].key = d[i][1]
                /\ runlog[j].avg = d[i][2]
                /\ (d = verify_averages) = (Prefix(runlog[j].folder) \in cfg.verify_dirs)

\* a folder whose prefix is in both sets was visited, and another run was stored
C2_Witness ==
    /\ p_pc = "end"
    /\ \E j \in LogIdx : Prefix(runlog[j].folder) \in (cfg.ignore_dirs \cap cfg.verify_dirs)
    /\ \E j \in LogIdx : Stored(runlog[j])

\* the indices the claim keeps: start_ps*1000 <= i <= end_ps*1000, 0 <= i <= n-1
InWindow(n, start_h, end_h) == {i \in 0..(n - 1) : start_h <= 2 * i /\ 2 * i <= end_h}

SeqRange(s) == {s[i] : i \in 1..Len(s)}

WasRead(e) == e.outcome \in {"ok", "ploterror", "empty", "error"}

\* C3: the samples averaged for a run are exactly those whose index i has
\* start_ps*1000 <= i <= end_ps*1000 and 0 <= i <= n-1; with no such sample
\* the run is skipped as empty and no average is stored.
C3_WindowExact ==
    \A j \in LogIdx :
       WasRead(runlog[j]) =>
          LET want == InWindow(runlog[j].n, cfg.start_h, cfg.end_h)
          IN  IF want = {}
              THEN ~Stored(runlog[j]) /\ runlog[j].kept = <<>>
              ELSE Stored(runlog[j]) /\ SeqRange(runlog[j].kept) = want

\* ---- reading and fitting one data file

FileLogIdx == 1..Len(filelog)

\* the line is a sample: no comment, five fields or more, a numeric time and value
WellFormed(line) ==
    /\ ~IsCommentLine(line)
    /\ Len(line.fields) >= 5
    /\ ParseFloat(line.fields[1]).ok
    /\ ParseFloat(line.fields[5]).ok

\* start_time_ps * 1000 <= time in fs <= end_time_ps * 1000
InReadWindow(line) ==
    LET t == ParseFloat(line.fields[1]).val
    IN  /\ RLeq(RMul(d_cfg.start_time_ps, RInt(1000)), t)
        /\ RLeq(t, RMul(d_cfg.end_time_ps, RInt(1000)))

\* the samples of the file inside the window, in file order
WindowSamples(lines) == SelectSeq(lines, LAMBDA l : WellFormed(l) /\ InReadWindow(l))

SampleTimePs(line) == RDiv(ParseFloat(line.fields[1]).val, RInt(1000))

\* every line of the file is a comment, a short line or a sample
IsSeriesFile(lines) ==
    \A i \in 1..Len(lines) :
       IsCommentLine(lines[i]) \/ Len(lines[i].fields) < 5 \/ WellFormed(lines[i])

\* every .dat file listed behind file_name in its folder has been visited
RestVisited(temperature, file_name) ==
    \A d \in 1..Len(disk) :
       disk[d].name = temperature =>
          LET files == get_all_data_files(disk[d].files)
          IN  \A a, b \in 1..Len(files) :
                 (a < b /\ files[a].name = file_name) =>
                    \E k \in FileLogIdx : /\ filelog[k].temperature = temperature
                                          /\ filelog[k].file = files[b].name

FoldersDone == d_pc \in {"arrhenius", "end"}

\* C4: read_data returns, in file order, exactly the samples of the file whose
\* time in fs lies in [start_time_ps*1000, end_time_ps*1000], the times in ps
\* less the first retained time, so the lists are equally long and a non-empty
\* result starts at time 0.
C4_ReadExact ==
    \A j \in FileLogIdx :
       \A e \in {filelog[j]} :
          \A want \in {WindowSamples(e.lines)} :
             /\ e.read.kind = "ok"
             /\ Len(e.read.time) = Len(e.read.msd)
             /\ e.read.time = [i \in 1..Len(want) |->
                                  RSub(SampleTimePs(want[i]), SampleTimePs(want[1]))]
             /\ e.read.msd = [i \in 1..Len(want) |-> ParseFloat(want[i].fields[5]).val]
             /\ (e.read.time # <<>> => e.read.time[1] = RZero)

\* C5: when no sample of a file falls in the window, read_data returns the
\* empty series without raising (the file being a series), the run gets no
\* entry in data_dict, diffusion_results or fit_params, and the files behind
\* it in the folder are still visited.
C5_EmptyWindowSkipped ==
    \A j \in FileLogIdx :
       \A e \in {filelog[j]} :
          WindowSamples(e.lines) = <<>> =>
             /\ IsSeriesFile(e.lines) =>
                   e.read = [kind |-> "ok", time |-> <<>>, msd |-> <<>>]
             /\ ~e.stored
             /\ e.key \notin DictKeys(data_dict)
             /\ e.key \notin DictKeys(diffusion_results)
             /\ e.key \notin DictKeys(fit_params)
             /\ e.fit.kind = "nodata"
             /\ FoldersDone => RestVisited(e.temperature, e.file)

\* a file with samples, none of them in the window, was skipped and the file
\* behind it was read and stored
C5_Witness ==
    /\ FoldersDone
    /\ \E j, k \in FileLogIdx :
          /\ j < k
          /\ \E i \in 1..Len(filelog[j].lines) : WellFormed(filelog[j].lines[i])
          /\ IsSeriesFile(filelog[j].lines)
          /\ WindowSamples(filelog[j].lines) = <<>>
          /\ filelog[j].read.kind = "ok"
          /\ filelog[k].stored
          /\ filelog[k].key \in DictKeys(diffusion_results)

\* the positions of the series whose time lies in [fit_start, fit_end]
InFitWindow(e) ==
    {i \in 1..Len(e.time) : RLeq(e.fit_start, e.time[i]) /\ RLeq(e.time[i], e.fit_end)}

\* compute_diffusion_coefficient was called for the file
FitCalled(e) == e.stored /\ d_cfg.ENABLE_FITTING # 0

\* D is the regression slope over 6, and the slope of an exact line: when the
\* points of the fit window lie on one line msd = 6 d t + c, D = d
SlopeOverSix(e, S) ==
    /\ RMul(RInt(6), e.fit.D) = e.fit.slope
    /\ \A i, k \in S :
          (/\ e.time[i] # e.time[k]
           /\ \A l \in S :
                 RMul(RSub(e.msd[l], e.msd[i]), RSub(e.time[k], e.time[i]))
                    = RMul(RSub(e.msd[k], e.msd[i]), RSub(e.time[l], e.time[i])))
          => RMul(RMul(RInt(6), e.fit.D), RSub(e.time[k], e.time[i]))
                = RSub(e.msd[k], e.msd[i])

\* fewer than 2 points: no result, no entry for the run, the rest still visited
TooFewSkipped(e, S) ==
    Cardinality(S) < 2 =>
       /\ e.fit.kind = "none"
       /\ e.key \notin DictKeys(diffusion_results)
       /\ e.key \notin DictKeys(fit_params)
       /\ FoldersDone => RestVisited(e.temperature, e.file)

\* C6 as stated: compute_diffusion_coefficient returns a result if and only if
\* at least 2 points of the series have their time in [fit_start, fit_end];
\* then D is the regression slope over 6; with fewer than 2 points there is no
\* result, the run is absent from diffusion_results and fit_params and the
\* remaining runs are still processed.
C6_Original ==
    \A j \in FileLogIdx :
       \A e \in {filelog[j]} :
          FitCalled(e) =>
             \A S \in {InFitWindow(e)} :
                /\ e.fit.kind = "result" <=> Cardinality(S) >= 2
                /\ e.fit.kind = "result" => SlopeOverSix(e, S)
                /\ TooFewSkipped(e, S)

\* C6: compute_diffusion_coefficient returns a result if and only if at least
\* 2 points of the series have their time in [fit_start, fit_end] and these
\* times are not all equal (on 2 or more equal times linregress raises
\* ValueError and the call returns nothing); then D is the regression slope
\* over 6; with fewer than 2 points there is no result, the run is absent from
\* diffusion_results and fit_params and the remaining runs are still processed.
C6_ResultIffFittable ==
    \A j \in FileLogIdx :
       \A e \in {filelog[j]} :
          FitCalled(e) =>
             \A S \in {InFitWindow(e)} :
                /\ e.fit.kind = "result" <=>
                      (Cardinality(S) >= 2 /\ \E i, k \in S : e.time[i] # e.time[k])
                /\ e.fit.kind = "raise" <=>
                      (Cardinality(S) >= 2 /\ \A i, k \in S : e.time[i] = e.time[k])
                /\ e.fit.kind = "result" => SlopeOverSix(e, S)
                /\ TooFewSkipped(e, S)

\* a run with one point in the fit window got no result, and the file behind
\* it, the exact line msd = 6 t on three points, got D = 1
C6_Witness ==
    /\ FoldersDone
    /\ \E j, k \in FileLogIdx :
          /\ j < k
          /\ FitCalled(filelog[j])
          /\ Cardinality(InFitWindow(filelog[j])) = 1
          /\ filelog[j].fit.kind = "none"
          /\ FitCalled(filelog[k])
          /\ Cardinality(InFitWindow(filelog[k])) = 3
          /\ filelog[k].fit.kind = "result"
          /\ filelog[k].fit.D = RInt(1)
          /\ filelog[k].key \in DictKeys(diffusion_results)


\* C7: with a non-zero slope, target_param = (expected_pressure - intercept) / slope,
\* so slope * target_param + intercept is the target; slope 2, intercept 1,
\* target 5 give 2; the fit through (1, 0.4), (2, 0.6) with target 0.5 gives
\* 1.5 (here with the pressures 0.4, 0.5, 0.6 rescaled to 0, 1/2, 1).
C7_LinearInversion ==
    /\ (fit.state # "none" /\ fit.slope # RZero /\ Len(fit.pts) >= 2) =>
          /\ fit.target.kind = "num"
          /\ RAdd(RMul(fit.slope, fit.target.val), fit.intercept) = cfg.expected_pressure
          /\ fit.state = "done" => reported = fit.target
    /\ TargetParam(RInt(2), RInt(1), RInt(5)) = [kind |-> "num", val |-> RInt(2)]
    /\ (fit.pts = <<<<RInt(1), RInt(0)>>, <<RInt(2), RInt(1)>>>>
           /\ cfg.expected_pressure = Rat(1, 2)) =>
          fit.target = [kind |-> "num", val |-> Rat(3, 2)]

\* the fit through (1, 0), (2, 1) was made, solved for 1/2 and reported
C7_Witness ==
    /\ fit.state = "done"
    /\ fit.pts = <<<<RInt(1), RInt(0)>>, <<RInt(2), RInt(1)>>>>
    /\ cfg.expected_pressure = Rat(1, 2)
    /\ reported.kind = "num"

\* C8: when the fitted slope is exactly 0 the solve fails with an error and
\* no predicted parameter is returned or reported.
C8_ZeroSlopeFails ==
    (Len(fit.pts) >= 2 /\ fit.state # "none" /\ fit.slope = RZero) =>
       /\ p_error # "none"
       /\ reported.kind = "none"

\* ---- the Arrhenius reduction

\* the rows of the csv file whose temperature and coefficient are numbers
ParsedRows ==
    SelectSeq([i \in 1..Len(csv_file.rows) |->
                  [T  |-> parse_temperature(csv_file.rows[i][1]),
                   D  |-> ParseFloat(csv_file.rows[i][2])]],
              LAMBDA r : r.T.ok /\ r.D.ok)

\* the coefficients above 0 listed for temperature T, in row order
PositiveOf(T) ==
    LET sel == SelectSeq(ParsedRows, LAMBDA r : r.T.val = T /\ RLess(RZero, r.D.val))
    IN  [i \in 1..Len(sel) |-> sel[i].D.val]

\* the temperatures with at least one coefficient above 0
SurvivingGroups ==
    {ParsedRows[i].T.val : i \in {k \in 1..Len(ParsedRows) : RLess(RZero, ParsedRows[k].D.val)}}

\* the for loop over the temperature groups has run to its end
GroupsReduced == arrhenius.state \in {"fitted", "nogroups"}

\* C9: the mean of ln(D) of a temperature group is taken over exactly the
\* values with D > 0 (0 and negative values are left out), and a group without
\* a positive value contributes no point to the regression.
C9_LogMeanOverPositive ==
    GroupsReduced =>
       /\ {arrhenius.points[i].T : i \in 1..Len(arrhenius.points)} = SurvivingGroups
       /\ \A i \in 1..Len(arrhenius.points) :
             \A pt \in {arrhenius.points[i]} :
                /\ pt.ln_of = PositiveOf(pt.T)
                /\ \A k \in 1..Len(pt.ln_of) : RLess(RZero, pt.ln_of[k])
                /\ \A k \in 1..Len(arrhenius.points) : arrhenius.points[k].T = pt.T => k = i

\* a group lost one of its values, a second group with values 0 or below gave
\* no point
C9_Witness ==
    /\ arrhenius.state = "fitted"
    /\ \E i \in 1..Len(arrhenius.points) :
          Len(DictGet(arrhenius.raw_data, arrhenius.points[i].T))
             > Len(arrhenius.points[i].ln_of)
    /\ \E T \in DictKeys(arrhenius.raw_data) :
          /\ T \notin SurvivingGroups
          /\ \E k \in 1..Len(DictGet(arrhenius.raw_data, T)) :
                DictGet(arrhenius.raw_data, T)[k] = RZero

\* C10: when fewer than 2 temperature groups survive the positive-D filter the
\* reduction fails as insufficient data, and neither a fitted line nor D0 is
\* written to fitting_results.txt.
C10_TooFewGroupsNothingWritten ==
    (arrhenius.state # "none" /\ Cardinality(SurvivingGroups) < 2) =>
       /\ arrhenius.state \in {"nodata", "nogroups", "error"}
       /\ ~arrhenius.written
       /\ arrhenius.line = "none"

\* the regression has been given its points
Regressed == arrhenius.state = "fitted"

\* x * T as a rational, for a point of the regression
AbscissaTimesT(pt) == <<pt.x[1] * pt.T[1], pt.x[2] * pt.T[2]>>

LoopedFolders ==
    {d \in 1..Len(disk) :
        /\ LowerStr(disk[d].name) # Str_output
        /\ get_all_data_files(disk[d].files) # <<>>
        /\ disk[d].name \in DictKeys(d_cfg.fit_ranges)}

\* process_single_file on the file alone, with empty dictionaries
OnItsOwn(d, file) ==
    process_single_file(file, <<>>, <<>>, <<>>, disk[d].name,
                        DictGet(d_cfg.fit_ranges, disk[d].name)[1],
                        DictGet(d_cfg.fit_ranges, disk[d].name)[2], d_cfg)

\* the pressure loop has visited every folder of the root
PressureAllVisited ==
    (p_pc = "end" /\ p_error \notin {"FileNotFoundError"}) =>
       {runlog[i].folder : i \in 1..Len(runlog)} = run_folders \cup {Str_output}

\* every .dat file of every looped folder was handed to process_single_file,
\* and the result it gets on its own is in diffusion_results
DiffusionAllVisited ==
    FoldersDone =>
       \A d \in LoopedFolders :
          \A files \in {get_all_data_files(disk[d].files)} :
             \A i \in 1..Len(files) :
                \A own \in {OnItsOwn(d, files[i])} :
                   /\ \E k \in FileLogIdx : filelog[k].key = own.entry.key
                   /\ own.entry.saved =>
                         /\ own.entry.key \in DictKeys(diffusion_results)
                         /\ DictGet(diffusion_results, own.entry.key)
                               = DictGet(own.diffusion_results, own.entry.key)

\* C12: an error raised while one run is processed (a pressure run folder, an
\* MSD file of a temperature group) never aborts the pipeline: every other
\* run is still processed, and the result it would get on its own reaches
\* averages / verify_averages or diffusion_results.
C12_ErrorsIsolated == PressureAllVisited /\ DiffusionAllVisited

\* the pressure runs whose try block ended in the except clause of line 166
PressureErrored == {i \in 1..Len(runlog) : runlog[i].outcome \in {"error", "ploterror"}}

\* no run of the same class and parameter went through without an error
OnlyErrored(i) ==
    \A k \in 1..Len(runlog) :
       (runlog[k].key = runlog[i].key /\ runlog[k].is_verify = runlog[i].is_verify)
          => k \in PressureErrored

PressureErroredExcluded ==
    \A i \in PressureErrored :
       OnlyErrored(i) =>
          /\ runlog[i].key \notin DictKeys(averages)
          /\ runlog[i].key \notin DictKeys(verify_averages)

\* the runs of a temperature group for which run_pipeline logged an error
\* have no entry in diffusion_results
DiffusionErroredExcluded ==
    \A k \in 1..Len(folder_errors) :
       \A i \in 1..Len(diffusion_results) :
          diffusion_results[i][2][3] # folder_errors[k]

\* C13: a run for which an error is raised and logged at any step (reading,
\* windowing, averaging or fitting, plotting) has no entry in averages or
\* verify_averages (pressure) or in diffusion_results (diffusion).
C13_ErroredRunsExcluded == PressureErroredExcluded /\ DiffusionErroredExcluded

\* C14: when the root data directory does not exist, the pressure pipeline
\* aborts with FileNotFoundError from process_data_files, surfaced at top level.
C14_MissingRootAborts ==
    [][(p_pc = "start" /\ ~root_exists) => (p_pc' = "end" /\ p_error' = "FileNotFoundError")]_vars

\* the distinct numeric parameters of the non-verify runs that gave an average
FitParameters == {ParseFloat(k).val : k \in DictKeys(averages)}

\* C15: with fewer than 2 valid non-verify runs of distinct numeric parameters
\* the pressure pipeline produces no fitted line and no predicted parameter;
\* the failure reaches the top-level handler and the program ends.
C15_TooFewRunsNoFit ==
    (p_pc = "end" /\ Cardinality(FitParameters) < 2) =>
       /\ fit.state = "none"
       /\ reported = NoTarget
       /\ p_error = "ValueError"

\* the folders whose part behind the last "-" is no float
BadlyNamed == {i \in 1..Len(runlog) : ~ParseFloat(ParamPart(runlog[i].folder)).ok}

\* C16: a run folder whose part behind the last "-" does not parse as a float
\* is skipped (with the warning of line 83 unless its prefix is ignored or it
\* is the output folder), adds no entry to averages or verify_averages, raises
\* nothing, and the folders behind it are still visited.
C16_BadNameSkipped ==
    /\ \A i \in BadlyNamed :
          \A e \in {runlog[i]} :
             /\ e.outcome \in {"ignored", "output", "badname"}
             /\ (Prefix(e.folder) \notin cfg.ignore_dirs /\ e.folder # Str_output)
                   => e.outcome = "badname"
             /\ e.key \notin DictKeys(averages)
             /\ e.key \notin DictKeys(verify_averages)
             /\ e.kept = <<>>
    /\ (BadlyNamed # {} /\ p_pc = "end") =>
          /\ [i \in 1..Len(runlog) |-> runlog[i].folder]
                = SortedNames(run_folders \cup {Str_output})
          /\ p_error \notin {"FileNotFoundError"}

\* the folder n-a was skipped for its name, and the run v-1 behind it gave an
\* average
C16_Witness ==
    /\ p_pc = "end"
    /\ \E i, k \in 1..Len(runlog) :
          /\ i < k
          /\ runlog[i].folder = Str_na
          /\ runlog[i].outcome = "badname"
          /\ runlog[k].folder = Str_v1
          /\ runlog[k].outcome = "ok"
          /\ runlog[k].key \in DictKeys(averages) \cup DictKeys(verify_averages)

\* the file holds a line that is no sample: a comment, a header, a short line,
\* or a line whose time or value is no number
HasMalformedLine(lines) == \E i \in 1..Len(lines) : ~WellFormed(lines[i])

\* C17: a malformed or short line of an MSD file is skipped and is not fatal:
\* the well-formed lines of the file inside the window are still returned, and
\* the run is still processed.
C17_MalformedSkipped ==
    \A j \in FileLogIdx :
       \A e \in {filelog[j]} :
          HasMalformedLine(e.lines) =>
             \A want \in {WindowSamples(e.lines)} :
                /\ e.msd = [i \in 1..Len(want) |-> ParseFloat(want[i].fields[5]).val]
                /\ Len(e.time) = Len(want)
                /\ want # <<>> => e.stored

\* the runs whose average was computed and whose plot was drawn
ProcessedRuns == {i \in 1..Len(runlog) : runlog[i].outcome = "ok"}

\* the average of the run is the one its class dictionary holds for its key
Retained(e) ==
    IF e.is_verify
    THEN e.key \in DictKeys(verify_averages) /\ DictGet(verify_averages, e.key) = e.avg
    ELSE e.key \in DictKeys(averages) /\ DictGet(averages, e.key) = e.avg

\* C18: every processed run keeps its own result: once average_pressures.txt
\* is written, the average of every processed run is still in the dictionary
\* of its class and is a line of the file, marked with the class of the run.
C18_EveryRunRetained ==
    result_file.written =>
       \A i \in ProcessedRuns :
          \A e \in {runlog[i]} :
             /\ Retained(e)
             /\ \E l \in 1..Len(result_file.lines) :
                   result_file.lines[l] = <<e.key, e.avg, e.is_verify>>

\* the pressure run folders are visited in the order of their names
PressureInNameOrder ==
    \A i, k \in 1..Len(runlog) :
       i < k => StrLess(runlog[i].folder, runlog[k].folder)

\* during the first call of run_pipeline the files are visited in the order
\* of the names of their folders, and inside a folder of their own names
DiffusionInNameOrder ==
    runs <= 1 =>
       \A j, k \in FileLogIdx :
          j < k =>
             \/ StrLess(filelog[j].temperature, filelog[k].temperature)
             \/ /\ filelog[j].temperature = filelog[k].temperature
                /\ StrLess(filelog[j].file, filelog[k].file)

\* C19: in both pipelines the runs are processed one at a time in the
\* lexicographic order of the folder (or file) names, whatever the order in
\* which the file system lists them.
C19_NameOrder == PressureInNameOrder /\ DiffusionInNameOrder

\* C20: run_pipeline run again on unchanged files and configuration leaves
\* diffusion_coefficients.csv as the run before left it: when the file is
\* saved over an existing one, its rows are the rows it had.
C20_RerunSameCsv ==
    [][(d_pc = "folders" /\ d_pc' = "arrhenius" /\ csv_file.exists)
          => csv_file' = csv_file]_vars

\* the second run has saved the file, with the rows of two temperature groups
C20_Witness ==
    /\ runs = 2
    /\ d_pc = "end"
    /\ csv_file.exists
    /\ \E i, k \in 1..Len(csv_file.rows) : csv_file.rows[i][1] # csv_file.rows[k][1]

----------------------------------------------------------------------------
(* Claims about the configuration and the polling loop *)

\* the times of the samples of the file, in fs and in file order
InputTimes(lines) ==
    Bind(SelectSeq(lines, WellFormed), LAMBDA samples :
      [i \in 1..Len(samples) |-> ParseFloat(samples[i].fields[1]).val])

NonDecreasing(times) ==
    \A i \in 1..Len(times) - 1 : RLeq(times[i], times[i + 1])

\* end_time_ps - start_time_ps
WindowSpan == RSub(d_cfg.end_time_ps, d_cfg.start_time_ps)

\* C21: when the times of a file do not decrease, every time read_data returns
\* for the window [start_time_ps, end_time_ps] lies in
\* [0, end_time_ps - start_time_ps]; the fit range is applied to these re-based
\* times, so a file whose fit_start is above end_time_ps - start_time_ps gets
\* no diffusion coefficient, whatever the order of its times; under the
\* configuration load_config generates (window 20..30, fit range 20..30)
\* diffusion_results stays empty.
C21_RebasedTimesBelowSpan ==
    \A span \in {WindowSpan} :
       /\ \A k \in FileLogIdx :
             \A e \in {filelog[k]} :
                /\ (e.read.kind = "ok" /\ NonDecreasing(InputTimes(e.lines))) =>
                      \A i \in 1..Len(e.read.time) :
                         RLeq(RZero, e.read.time[i]) /\ RLeq(e.read.time[i], span)
                /\ RLess(span, e.fit_start) => (e.fit.kind # "result" /\ ~e.saved)
       /\ (d_pc # "start" /\ d_cfg = DefaultConfig(disk)) => diffusion_results = <<>>

\* the run under the generated configuration has ended with nothing saved,
\* after a file of three samples in the window, read as 0, 5 and 10 ps (the
\* last at the very span of the window), was refused by the fit
C21_Witness ==
    /\ d_pc = "end"
    /\ d_cfg = DefaultConfig(disk)
    /\ config_json = ConfigFile(d_cfg, 1)
    /\ diffusion_results = <<>>
    /\ csv_file.exists /\ csv_file.rows = <<>>
    /\ \E k \in FileLogIdx :
          /\ filelog[k].temperature = Str_600K
          /\ filelog[k].read.time = <<RZero, RInt(5), RInt(10)>>
          /\ filelog[k].read.time[3] = WindowSpan
          /\ filelog[k].fit.kind = "none"

PollIdx == 1..Len(polls)

\* a poll starts run_pipeline only when config.json exists and its
\* modification time is above the recorded one, or none is recorded
PollStartsOnlyOnNewer ==
    \A i \in PollIdx :
       polls[i].started =>
          /\ polls[i].exists
          /\ polls[i].last = <<>> \/ polls[i].mtime > polls[i].last[1]

\* a poll that finds the modification time of the poll before it does not
\* start run_pipeline
SameMtimeNoRerun ==
    \A i \in PollIdx :
       (i > 1 /\ polls[i - 1].exists /\ polls[i].exists
              /\ polls[i].mtime = polls[i - 1].mtime) => ~polls[i].started

\* no two polls start run_pipeline on one modification time
OneRerunPerMtime ==
    \A i, k \in PollIdx :
       (i < k /\ polls[i].started /\ polls[k].started) =>
          polls[i].mtime # polls[k].mtime

\* C22: in the polling loop of main() each modification of config.json starts
\* run_pipeline at most once: a poll starts it only if config.json exists and
\* its modification time is strictly above the last recorded one (or none was
\* recorded), and a poll that finds the modification time of the poll before it
\* does not start it, whatever the outcome of the earlier runs.
C22_OneRerunPerModification ==
    /\ PollStartsOnlyOnNewer
    /\ SameMtimeNoRerun
    /\ OneRerunPerMtime

====
